---------------------------- MODULE Spec2Model ----------------------------
(* libmetal lib/utilities.h: alignment arithmetic, the word-array bitmap   *)
(* (set / clear / test / scan / iterate) and metal_log2.                   *)
(*                                                                         *)
(* An unsigned C value is modelled by its bit pattern: the set of bit      *)
(* positions that hold 1 (bit 0 is the least significant).  An unsigned    *)
(* long therefore is a subset of 0..METAL_BITS_PER_ULONG-1 and an int a    *)
(* subset of 0..INT_BITS-1, at their real widths.  Bit indices, loop       *)
(* counters and word indices are small and are kept as naturals.           *)
EXTENDS Integers, Sequences, FiniteSets

VARIABLES
    sizeof_ulong,   \* sizeof(unsigned long) of the build: 4 (ILP32) or 8 (LP64)
    ndebug,         \* TRUE when the build defines NDEBUG (assert compiled out)
    bitmap,         \* unsigned long bitmap[]: word index -> bit pattern
    pc,             \* position of the caller / of the running loop
    call,           \* the last call made: its name, arguments and result
    bit,            \* loop variable of the for_each macros
    max,            \* exclusive bound of the running for_each loop
    visited,        \* values of the loop variable seen by the loop body
    in,             \* metal_log2: argument
    result          \* metal_log2: local counter

vars == <<sizeof_ulong, ndebug, bitmap, pc, call, bit, max, visited, in, result>>

-----------------------------------------------------------------------------
(* Bounds of the model.                                                    *)

\* Number of bits the caller's bitmap holds (the caller's "max").
NumBits == 72
\* Calls use the first and the last bit index of every Stride-sized block.
Stride == 32
\* The body of a for_each loop is run at most this many times.
MaxVisits == 3
\* Arithmetic inputs are 2^k + d (modulo 2^width) for every k up to the width
\* and every |d| <= MaxDelta.
MaxDelta == 1
\* metal_log2 is followed for this many iterations past an undefined shift.
MaxUbSteps == 2

-----------------------------------------------------------------------------
(* Platform.                                                               *)

\* Width of int (the return type of metal_bitmap_is_bit_set).
INT_BITS == 32

SizeofUlong == {4, 8}

METAL_BITS_PER_ULONG == 8 * sizeof_ulong

-----------------------------------------------------------------------------
(* Naturals as bit patterns (unbounded), and C's fixed-width operators.    *)

Top(x) == IF x = {} THEN 0 ELSE CHOOSE p \in x : \A q \in x : q <= p

NatLt(a, b) == a # b /\ Top((a \ b) \cup (b \ a)) \in b

NatLe(a, b) == a = b \/ NatLt(a, b)

\* a + b in the naturals.  The carry into bit p: some lower bit generates a
\* carry and every bit between propagates it.
Carry(a, b, p) ==
    \E q \in a \cap b : q < p /\ \A r \in q + 1 .. p - 1 : r \in a \/ r \in b

NatAdd(a, b) ==
    {p \in 0 .. Top(a \cup b) + 1 :
        ((p \in a) # (p \in b)) # Carry(a, b, p)}

\* a * 2^k in the naturals.
NatShl(a, k) == {p + k : p \in a}

RECURSIVE NatMul(_, _)
NatMul(a, b) ==
    IF b = {} THEN {}
    ELSE LET k == Top(b) IN NatAdd(NatShl(a, k), NatMul(a, b \ {k}))

\* The bit pattern of a small natural, and back.
FromNat(n) == {p \in 0..30 : (n \div (2 ^ p)) % 2 = 1}

RECURSIVE ToNat(_)
ToNat(x) == IF x = {} THEN 0 ELSE LET p == Top(x) IN 2 ^ p + ToNat(x \ {p})

\* Conversion to an unsigned type of w bits: reduction modulo 2^w.
Trunc(x, w) == {p \in x : p < w}

\* x & y, ~x, x + y, x - y on unsigned operands of w bits.
BitAnd(x, y) == x \cap y

BitNot(x, w) == (0 .. w - 1) \ x

AddW(x, y, w) == Trunc(NatAdd(x, y), w)

SubW(x, y, w) == Trunc(NatAdd(NatAdd(x, BitNot(y, w)), {0}), w)

\* x / y on unsigned operands, for the divisors the callers use: y = 2^k,
\* where the quotient is x without its k lowest bits.
DivW(x, y) == {p - Top(y) : p \in {q \in x : q >= Top(y)}}

\* !x on an int: 1 when x is 0, else 0.
LogicalNot(x) == IF x = {} THEN {0} ELSE {}

-----------------------------------------------------------------------------
(* The macros, on operands of the width of unsigned long, size_t and       *)
(* uintptr_t: the type of METAL_BITS_PER_ULONG forces that width on        *)
(* metal_bitmap_longs, and the casts force it on the pointer variants.     *)

metal_align_down(size, align) ==
    BitAnd(size, BitNot(SubW(align, {0}, METAL_BITS_PER_ULONG), METAL_BITS_PER_ULONG))

metal_align_up(size, align) ==
    metal_align_down(
        SubW(AddW(size, align, METAL_BITS_PER_ULONG), {0}, METAL_BITS_PER_ULONG),
        align)

metal_div_round_down(num, den) == DivW(num, den)

metal_div_round_up(num, den) ==
    metal_div_round_down(
        SubW(AddW(num, den, METAL_BITS_PER_ULONG), {0}, METAL_BITS_PER_ULONG),
        den)

\* The casts to uintptr_t give the operands the width modelled above.
metal_ptr_align_down(ptr, align) == metal_align_down(ptr, align)

metal_ptr_align_up(ptr, align) == metal_align_up(ptr, align)

metal_bit(b) == {b}

metal_bitmap_longs(x) == metal_div_round_up(x, FromNat(METAL_BITS_PER_ULONG))

-----------------------------------------------------------------------------
(* The bitmap.                                                             *)

\* Words the caller allocates for NumBits bits.
NumWords == ToNat(metal_bitmap_longs(FromNat(NumBits)))

\* x & y on two small non-negative operands kept as naturals.
RECURSIVE IndexAnd(_, _)
IndexAnd(x, y) ==
    IF x = 0 \/ y = 0 THEN 0
    ELSE (x % 2) * (y % 2) + 2 * IndexAnd(x \div 2, y \div 2)

\* bit / METAL_BITS_PER_ULONG and bit & (METAL_BITS_PER_ULONG - 1).
WordOf(b) == b \div METAL_BITS_PER_ULONG

PosOf(b) == IndexAnd(b, METAL_BITS_PER_ULONG - 1)

metal_bitmap_set_bit(bm, b) ==
    [bm EXCEPT ![WordOf(b)] = @ \cup metal_bit(PosOf(b))]

\* The unsigned long value of the masked word is converted to the int that
\* is returned: the bits at and above INT_BITS are dropped.
metal_bitmap_is_bit_set(bm, b) ==
    Trunc(BitAnd(bm[WordOf(b)], metal_bit(PosOf(b))), INT_BITS)

\* metal_bitmap_clear_bit with the complement left out of the mask.
metal_bitmap_clear_bit_no_complement(bm, b) ==
    [bm EXCEPT ![WordOf(b)] = BitAnd(@, metal_bit(PosOf(b)))]

metal_bitmap_clear_bit(bm, b) ==
    [bm EXCEPT ![WordOf(b)] =
        BitAnd(@, BitNot(metal_bit(PosOf(b)), METAL_BITS_PER_ULONG))]

metal_bitmap_is_bit_clear(bm, b) == LogicalNot(metal_bitmap_is_bit_set(bm, b))

RECURSIVE metal_bitmap_next_set_bit(_, _, _)
metal_bitmap_next_set_bit(bm, start, mx) ==
    IF start < mx /\ LogicalNot(metal_bitmap_is_bit_set(bm, start)) # {}
    THEN metal_bitmap_next_set_bit(bm, start + 1, mx)
    ELSE start

RECURSIVE metal_bitmap_next_clear_bit(_, _, _)
metal_bitmap_next_clear_bit(bm, start, mx) ==
    IF start < mx /\ LogicalNot(metal_bitmap_is_bit_clear(bm, start)) # {}
    THEN metal_bitmap_next_clear_bit(bm, start + 1, mx)
    ELSE start

-----------------------------------------------------------------------------
(* Callers of the bitmap.                                                  *)

\* Bit indices the calls use, and the bounds the scans use.
Indices == {b \in 0 .. NumBits - 1 : b % Stride = 0 \/ b % Stride = Stride - 1}

Marks == Indices \cup {NumBits}

\* The bitmaps whose 1-bits are among Indices.
Contents ==
    {[w \in 0 .. NumWords - 1 |->
        {b % METAL_BITS_PER_ULONG : b \in {c \in s : c \div METAL_BITS_PER_ULONG = w}}]
     : s \in SUBSET Indices}

NoCall == [op |-> "none"]

InitBitmap ==
    /\ sizeof_ulong \in SizeofUlong
    /\ ndebug = FALSE
    /\ bitmap \in Contents
    /\ pc = "idle"
    /\ call = NoCall
    /\ bit = 0
    /\ max = 0
    /\ visited = <<>>
    /\ in = {}
    /\ result = 0

SetBit(b) ==
    /\ pc = "idle"
    /\ bitmap' = metal_bitmap_set_bit(bitmap, b)
    /\ call' = [op |-> "set_bit", bit |-> b]
    /\ pc' = "returned"
    /\ UNCHANGED <<sizeof_ulong, ndebug, bit, max, visited, in, result>>

ClearBit(b) ==
    /\ pc = "idle"
    /\ bitmap' = metal_bitmap_clear_bit(bitmap, b)
    /\ call' = [op |-> "clear_bit", bit |-> b]
    /\ pc' = "returned"
    /\ UNCHANGED <<sizeof_ulong, ndebug, bit, max, visited, in, result>>

IsBitSet(b) ==
    /\ pc = "idle"
    /\ call' = [op |-> "is_bit_set", bit |-> b,
                ret |-> metal_bitmap_is_bit_set(bitmap, b)]
    /\ pc' = "returned"
    /\ UNCHANGED <<sizeof_ulong, ndebug, bitmap, bit, max, visited, in, result>>

IsBitClear(b) ==
    /\ pc = "idle"
    /\ call' = [op |-> "is_bit_clear", bit |-> b,
                ret |-> metal_bitmap_is_bit_clear(bitmap, b)]
    /\ pc' = "returned"
    /\ UNCHANGED <<sizeof_ulong, ndebug, bitmap, bit, max, visited, in, result>>

NextSetBit ==
    /\ pc = "idle"
    /\ \E start \in Marks, mx \in Marks :
         /\ start <= mx
         /\ call' = [op |-> "next_set_bit", start |-> start, max |-> mx,
                     ret |-> metal_bitmap_next_set_bit(bitmap, start, mx)]
    /\ pc' = "returned"
    /\ UNCHANGED <<sizeof_ulong, ndebug, bitmap, bit, max, visited, in, result>>

NextClearBit ==
    /\ pc = "idle"
    /\ \E start \in Marks, mx \in Marks :
         /\ start <= mx
         /\ call' = [op |-> "next_clear_bit", start |-> start, max |-> mx,
                     ret |-> metal_bitmap_next_clear_bit(bitmap, start, mx)]
    /\ pc' = "returned"
    /\ UNCHANGED <<sizeof_ulong, ndebug, bitmap, bit, max, visited, in, result>>

\* metal_bitmap_for_each_set_bit(bitmap, bit, max) { body }: the three
\* clauses of the for statement and the body, which only observes bit.
ForEachSetBitInit(mx) ==
    /\ pc = "idle"
    /\ bit' = metal_bitmap_next_set_bit(bitmap, 0, mx)
    /\ max' = mx
    /\ visited' = <<>>
    /\ call' = [op |-> "for_each_set_bit", max |-> mx]
    /\ pc' = "set_cond"
    /\ UNCHANGED <<sizeof_ulong, ndebug, bitmap, in, result>>

ForEachSetBitCond ==
    /\ pc = "set_cond"
    /\ pc' = IF bit < max THEN "set_body" ELSE "set_done"
    /\ UNCHANGED <<sizeof_ulong, ndebug, bitmap, call, bit, max, visited, in, result>>

ForEachSetBitBody ==
    /\ pc = "set_body"
    /\ Len(visited) < MaxVisits
    /\ visited' = Append(visited, bit)
    /\ pc' = "set_next"
    /\ UNCHANGED <<sizeof_ulong, ndebug, bitmap, call, bit, max, in, result>>

ForEachSetBitNext ==
    /\ pc = "set_next"
    /\ bit' = metal_bitmap_next_set_bit(bitmap, bit, max)
    /\ pc' = "set_cond"
    /\ UNCHANGED <<sizeof_ulong, ndebug, bitmap, call, max, visited, in, result>>

\* metal_bitmap_for_each_clear_bit(bitmap, bit, max) { body }.
ForEachClearBitInit(mx) ==
    /\ pc = "idle"
    /\ bit' = metal_bitmap_next_clear_bit(bitmap, 0, mx)
    /\ max' = mx
    /\ visited' = <<>>
    /\ call' = [op |-> "for_each_clear_bit", max |-> mx]
    /\ pc' = "clear_cond"
    /\ UNCHANGED <<sizeof_ulong, ndebug, bitmap, in, result>>

ForEachClearBitCond ==
    /\ pc = "clear_cond"
    /\ pc' = IF bit < max THEN "clear_body" ELSE "clear_done"
    /\ UNCHANGED <<sizeof_ulong, ndebug, bitmap, call, bit, max, visited, in, result>>

ForEachClearBitBody ==
    /\ pc = "clear_body"
    /\ Len(visited) < MaxVisits
    /\ visited' = Append(visited, bit)
    /\ pc' = "clear_next"
    /\ UNCHANGED <<sizeof_ulong, ndebug, bitmap, call, bit, max, in, result>>

ForEachClearBitNext ==
    /\ pc = "clear_next"
    /\ bit' = metal_bitmap_next_clear_bit(bitmap, bit, max)
    /\ pc' = "clear_cond"
    /\ UNCHANGED <<sizeof_ulong, ndebug, bitmap, call, max, visited, in, result>>

\* The caller goes on after a call has returned or a loop has ended.
Return ==
    /\ pc \in {"returned", "set_done", "clear_done"}
    /\ pc' = "idle"
    /\ call' = NoCall
    /\ bit' = 0
    /\ max' = 0
    /\ visited' = <<>>
    /\ in' = {}
    /\ result' = 0
    /\ UNCHANGED <<sizeof_ulong, ndebug, bitmap>>

NextBitmap ==
    \/ \E b \in Indices : SetBit(b)
    \/ \E b \in Indices : ClearBit(b)
    \/ \E b \in Indices : IsBitSet(b)
    \/ \E b \in Indices : IsBitClear(b)
    \/ NextSetBit
    \/ NextClearBit
    \/ \E m \in Marks : ForEachSetBitInit(m)
    \/ ForEachSetBitCond
    \/ ForEachSetBitBody
    \/ ForEachSetBitNext
    \/ \E m \in Marks : ForEachClearBitInit(m)
    \/ ForEachClearBitCond
    \/ ForEachClearBitBody
    \/ ForEachClearBitNext
    \/ Return

SpecBitmap == InitBitmap /\ [][NextBitmap]_vars

-----------------------------------------------------------------------------
(* metal_log2.                                                             *)

\* in & (in - 1): the operand of the assertion.
Log2AssertOperand(v) == BitAnd(v, SubW(v, {0}, METAL_BITS_PER_ULONG))

\* The loop condition with <= in place of <.
Log2LoopCondLe(r, v) == NatLe(metal_bit(r), v)

\* (1UL << result) < in, for result below the width of unsigned long.
Log2LoopCond(r, v) == NatLt(metal_bit(r), v)

\* Arguments: 2^k + d modulo 2^width, for every k up to the width and every
\* small d; 0, 1, 3, the largest value and every power of two are among them.
NearPow2(k, d) ==
    IF d >= 0 THEN AddW({k}, FromNat(d), METAL_BITS_PER_ULONG)
    ELSE SubW({k}, FromNat(-d), METAL_BITS_PER_ULONG)

Inputs ==
    {NearPow2(k, d) : k \in 0 .. METAL_BITS_PER_ULONG, d \in -MaxDelta .. MaxDelta}

InitLog2 ==
    /\ sizeof_ulong \in SizeofUlong
    /\ ndebug \in BOOLEAN
    /\ bitmap = <<>>
    /\ pc = "idle"
    /\ call = NoCall
    /\ bit = 0
    /\ max = 0
    /\ visited = <<>>
    /\ in = {}
    /\ result = 0

Log2Call ==
    /\ pc = "idle"
    /\ in' \in Inputs
    /\ pc' = "log2_assert"
    /\ UNCHANGED <<sizeof_ulong, ndebug, bitmap, call, bit, max, visited, result>>

\* assert((in & (in - 1)) == 0); a failed assertion aborts the process.
Log2Assert ==
    /\ pc = "log2_assert"
    /\ IF ndebug \/ Log2AssertOperand(in) = {}
       THEN pc' = "log2_loop" /\ result' = 0
       ELSE pc' = "log2_abort" /\ UNCHANGED result
    /\ UNCHANGED <<sizeof_ulong, ndebug, bitmap, call, bit, max, visited, in>>

\* One evaluation of the loop condition, with a defined shift.
Log2Loop ==
    /\ pc = "log2_loop"
    /\ result < METAL_BITS_PER_ULONG
    /\ IF Log2LoopCond(result, in)
       THEN result' = result + 1 /\ UNCHANGED <<pc, call>>
       ELSE /\ pc' = "returned"
            /\ call' = [op |-> "log2", ret |-> result]
            /\ UNCHANGED result
    /\ UNCHANGED <<sizeof_ulong, ndebug, bitmap, bit, max, visited, in>>

\* One evaluation of the loop condition with a shift count that is not
\* below the width: the behaviour is undefined, the comparison may come
\* out either way.
Log2LoopUndefined ==
    /\ pc = "log2_loop"
    /\ result >= METAL_BITS_PER_ULONG
    /\ \E less \in BOOLEAN :
         IF less
         THEN /\ result < METAL_BITS_PER_ULONG + MaxUbSteps
              /\ result' = result + 1
              /\ UNCHANGED <<pc, call>>
         ELSE /\ pc' = "returned"
              /\ call' = [op |-> "log2", ret |-> result]
              /\ UNCHANGED result
    /\ UNCHANGED <<sizeof_ulong, ndebug, bitmap, bit, max, visited, in>>

NextLog2 ==
    \/ Log2Call
    \/ Log2Assert
    \/ Log2Loop
    \/ Log2LoopUndefined
    \/ Return

SpecLog2 == InitLog2 /\ [][NextLog2]_vars

-----------------------------------------------------------------------------
(* Callers of the arithmetic macros.                                       *)

Aligns == {metal_bit(k) : k \in 0 .. METAL_BITS_PER_ULONG - 1}

InitArith ==
    /\ sizeof_ulong \in SizeofUlong
    /\ ndebug = FALSE
    /\ bitmap = <<>>
    /\ pc = "idle"
    /\ call = NoCall
    /\ bit = 0
    /\ max = 0
    /\ visited = <<>>
    /\ in = {}
    /\ result = 0

AlignDown ==
    /\ pc = "idle"
    /\ \E size \in Inputs, align \in Aligns :
         call' = [op |-> "align_down", size |-> size, align |-> align,
                  ret |-> metal_align_down(size, align)]
    /\ pc' = "returned"
    /\ UNCHANGED <<sizeof_ulong, ndebug, bitmap, bit, max, visited, in, result>>

AlignUp ==
    /\ pc = "idle"
    /\ \E size \in Inputs, align \in Aligns :
         call' = [op |-> "align_up", size |-> size, align |-> align,
                  ret |-> metal_align_up(size, align)]
    /\ pc' = "returned"
    /\ UNCHANGED <<sizeof_ulong, ndebug, bitmap, bit, max, visited, in, result>>

PtrAlignDown ==
    /\ pc = "idle"
    /\ \E ptr \in Inputs, align \in Aligns :
         call' = [op |-> "ptr_align_down", size |-> ptr, align |-> align,
                  ret |-> metal_ptr_align_down(ptr, align)]
    /\ pc' = "returned"
    /\ UNCHANGED <<sizeof_ulong, ndebug, bitmap, bit, max, visited, in, result>>

PtrAlignUp ==
    /\ pc = "idle"
    /\ \E ptr \in Inputs, align \in Aligns :
         call' = [op |-> "ptr_align_up", size |-> ptr, align |-> align,
                  ret |-> metal_ptr_align_up(ptr, align)]
    /\ pc' = "returned"
    /\ UNCHANGED <<sizeof_ulong, ndebug, bitmap, bit, max, visited, in, result>>

BitmapLongs ==
    /\ pc = "idle"
    /\ \E n \in Inputs :
         call' = [op |-> "bitmap_longs", n |-> n, ret |-> metal_bitmap_longs(n)]
    /\ pc' = "returned"
    /\ UNCHANGED <<sizeof_ulong, ndebug, bitmap, bit, max, visited, in, result>>

NextArith ==
    \/ BitmapLongs
    \/ AlignUp
    \/ AlignDown
    \/ PtrAlignUp
    \/ PtrAlignDown
    \/ Return

SpecArith == InitArith /\ [][NextArith]_vars

-----------------------------------------------------------------------------
(* Properties.                                                             *)

\* The stored bit b of a bitmap: word b / W, position b % W.
Stored(bm, b) ==
    (b % METAL_BITS_PER_ULONG) \in bm[b \div METAL_BITS_PER_ULONG]

AllocatedBits == 0 .. NumWords * METAL_BITS_PER_ULONG - 1

BitsIn(bm, lo, hi, v) == {i \in lo .. hi - 1 : Stored(bm, i) = v}

Least(S) == CHOOSE x \in S : \A y \in S : x <= y

\* seq lists, in ascending order and without repetition, the first
\* Len(seq) elements of S.
AscendingPrefix(seq, S) ==
    \A i \in 1 .. Len(seq) :
        seq[i] \in S /\ Cardinality({x \in S : x < seq[i]}) = i - 1

IsPow2(x) == Cardinality(x) = 1

\* C1: is_bit_set returns non-zero iff the stored bit is 1 and is_bit_clear
\* the opposite; after set_bit(b) bit b tests set and not clear, after
\* clear_bit(b) it tests clear and not set.
C1_QueryTellsStoredBit ==
    pc = "returned" =>
        /\ call.op = "is_bit_set" =>
               ((call.ret # {}) <=> Stored(bitmap, call.bit))
        /\ call.op = "is_bit_clear" =>
               ((call.ret # {}) <=> ~Stored(bitmap, call.bit))
        /\ call.op = "set_bit" =>
               /\ metal_bitmap_is_bit_set(bitmap, call.bit) # {}
               /\ metal_bitmap_is_bit_clear(bitmap, call.bit) = {}
        /\ call.op = "clear_bit" =>
               /\ metal_bitmap_is_bit_set(bitmap, call.bit) = {}
               /\ metal_bitmap_is_bit_clear(bitmap, call.bit) # {}

\* C2: next_set_bit(bm, start, max) returns max when no stored bit of
\* [start, max) is 1, and else the least index of [start, max) whose stored
\* bit is 1.
C2_NextSetBitIsLeastSetBit ==
    (pc = "returned" /\ call.op = "next_set_bit") =>
        call.ret = IF BitsIn(bitmap, call.start, call.max, TRUE) = {}
                   THEN call.max
                   ELSE Least(BitsIn(bitmap, call.start, call.max, TRUE))

\* C3: the body of for_each_set_bit sees the indices of the set bits of
\* [0, max) in ascending order, each once, and the loop then ends having
\* seen all of them.
C3_ForEachSetBitVisitsSetBitsOnce ==
    call.op = "for_each_set_bit" =>
        /\ AscendingPrefix(visited, BitsIn(bitmap, 0, call.max, TRUE))
        /\ pc = "set_done" =>
               Len(visited) = Cardinality(BitsIn(bitmap, 0, call.max, TRUE))

\* C4: the body of for_each_clear_bit sees the indices of the clear bits of
\* [0, max) in ascending order, each once, and the loop then ends having
\* seen all of them.
C4_ForEachClearBitVisitsClearBitsOnce ==
    call.op = "for_each_clear_bit" =>
        /\ AscendingPrefix(visited, BitsIn(bitmap, 0, call.max, FALSE))
        /\ pc = "clear_done" =>
               Len(visited) = Cardinality(BitsIn(bitmap, 0, call.max, FALSE))

\* C5: next_clear_bit(bm, start, max) returns max when no stored bit of
\* [start, max) is 0, and else the least index of [start, max) whose stored
\* bit is 0; it never returns the index of a stored 1.
C5_NextClearBitIsLeastClearBit ==
    (pc = "returned" /\ call.op = "next_clear_bit") =>
        /\ call.ret = IF BitsIn(bitmap, call.start, call.max, FALSE) = {}
                      THEN call.max
                      ELSE Least(BitsIn(bitmap, call.start, call.max, FALSE))
        /\ call.ret < call.max => ~Stored(bitmap, call.ret)

\* C6: a step changes a stored bit c only if it is set_bit(c), which leaves
\* it 1, or clear_bit(c), which leaves it 0; set_bit(b) and clear_bit(b)
\* leave is_bit_set(c) as it was for every c other than b, and keep every
\* word within its width.
C6_SetClearTouchOnlyTheirBit ==
    [][ /\ \A c \in AllocatedBits :
              Stored(bitmap', c) # Stored(bitmap, c) =>
                  /\ call'.op \in {"set_bit", "clear_bit"}
                  /\ call'.bit = c
                  /\ Stored(bitmap', c) <=> call'.op = "set_bit"
        /\ (pc = "idle" /\ call'.op \in {"set_bit", "clear_bit"}) =>
              /\ \A c \in AllocatedBits \ {call'.bit} :
                    metal_bitmap_is_bit_set(bitmap', c)
                        = metal_bitmap_is_bit_set(bitmap, c)
              /\ \A w \in DOMAIN bitmap' :
                    bitmap'[w] \subseteq 0 .. METAL_BITS_PER_ULONG - 1
      ]_vars

\* C6 witness: clear_bit has returned with another 1 stored in the word of
\* its bit and a 1 stored in a different word.
C6_Witness ==
    /\ pc = "returned"
    /\ call.op = "clear_bit"
    /\ \E c \in AllocatedBits, d \in AllocatedBits :
         /\ c # call.bit
         /\ c \div METAL_BITS_PER_ULONG = call.bit \div METAL_BITS_PER_ULONG
         /\ d \div METAL_BITS_PER_ULONG # call.bit \div METAL_BITS_PER_ULONG
         /\ Stored(bitmap, c)
         /\ Stored(bitmap, d)

\* C7: with assertions enabled, metal_log2 goes past its assertion only for
\* a positive power of two, and aborts for every other argument.
C7_AssertPassesOnlyPowersOfTwo ==
    ~ndebug =>
        /\ pc \in {"log2_loop", "returned"} => IsPow2(in)
        /\ pc = "log2_abort" => ~IsPow2(in)

\* C8: for in = 2^k with k below the width, metal_log2 does not abort, its
\* counter never passes k (so no shift count reaches the width), and it
\* returns k.
C8_Log2OfPowerOfTwo ==
    IsPow2(in) =>
        /\ pc # "log2_abort"
        /\ pc = "log2_loop" =>
               result <= Top(in) /\ result < METAL_BITS_PER_ULONG
        /\ pc = "returned" => call.op = "log2" /\ in = {call.ret}

\* C8 witness: metal_log2 has returned 63 for 2^63, the top value of a
\* 64-bit unsigned long.
C8_Witness ==
    /\ pc = "returned"
    /\ call.op = "log2"
    /\ sizeof_ulong = 8
    /\ in = {63}
    /\ call.ret = 63

\* C9: metal_bitmap_longs(n) is ceil(n / W): 0 for n = 0, and else the least
\* c with c * W >= n.
C9_BitmapLongsIsCeiling ==
    (pc = "returned" /\ call.op = "bitmap_longs") =>
        /\ call.n = {} => call.ret = {}
        /\ NatLe(call.n, NatMul(call.ret, FromNat(METAL_BITS_PER_ULONG)))
        /\ call.ret # {} =>
               NatLt(NatMul(SubW(call.ret, {0}, Top(call.ret) + 1),
                            FromNat(METAL_BITS_PER_ULONG)),
                     call.n)

Multiple(x, align) == \A p \in x : p >= Top(align)

\* C10: align_down(size, align) is the greatest multiple of align that is
\* <= size, align_up(size, align) the least multiple of align that is
\* >= size; the two differ by 0 or align, and both are idempotent.
C10_AlignDownUp ==
    pc = "returned" =>
        /\ call.op \in {"align_down", "ptr_align_down"} =>
               /\ Multiple(call.ret, call.align)
               /\ NatLe(call.ret, call.size)
               /\ NatLt(call.size, NatAdd(call.ret, call.align))
               /\ metal_align_down(call.ret, call.align) = call.ret
        /\ call.op \in {"align_up", "ptr_align_up"} =>
               /\ Multiple(call.ret, call.align)
               /\ NatLe(call.size, call.ret)
               /\ NatLt(call.ret, NatAdd(call.size, call.align))
               /\ metal_align_up(call.ret, call.align) = call.ret
               /\ \/ call.ret = metal_align_down(call.size, call.align)
                  \/ call.ret = NatAdd(metal_align_down(call.size, call.align),
                                       call.align)

=============================================================================
